---- MODULE Spec2Model ----
(***************************************************************************)
(* A model of the travel-planning agent: the /chat endpoint of main_adk.py *)
(* with its per-user session map, and the tool functions of tools_adk.py   *)
(* (knowledge-base search, web and flight search, the preference store).   *)
(*                                                                         *)
(* Strings whose content matters (text fragments, replies) are sequences   *)
(* of one-character strings, so that join and strip are computed; fixed    *)
(* messages are one-token sequences.  A JSON document on disk is held as   *)
(* the value json.load yields for it.                                      *)
(***************************************************************************)
EXTENDS Integers, Sequences, FiniteSets, TLC

(***************************************************************************)
(* Bounds of the model.                                                    *)
(***************************************************************************)
MaxRequests == 2
MaxEvents == 2
MaxParts == 1
MaxText == 2
MaxSaves == 3
MaxInitPrefs == 1
MaxVecs == 2
MaxTexts == 1
MaxK == 3
MaxItems == 2
MaxResults == 2

\* the request handlers that can be running at once, and the user ids they serve
Handlers == {1, 2}

Users == {"alice", "bob"}

VARIABLES
    \* main_adk.py
    user_sessions,   \* user_sessions: user id -> session id (NoSession: no entry)
    sessions,        \* the session service: the <<user, id>> it has created
    createCalls,     \* create_session calls seen by the session service, per user
    createRaised,    \* the users for whom a create_session call has raised
    runs,            \* the <<user, session id>> run_async has been called with
    requests,        \* /chat requests accepted so far
    pc,              \* where each request handler stands
    req_user,        \* request.user_id of the handler's request
    session_id,      \* the handler's local session_id
    text_parts,      \* the handler's local text_parts
    n_events,        \* events the handler's run has yielded
    emitted,         \* the text its run has emitted so far, concatenated
    had_entry,       \* whether user_sessions held the user when the request came
    my_creates,      \* create_session calls made for this request
    response,        \* the "response" field of the handler's reply
    \* tools_adk.py: the preference store
    prefs_file,      \* the file at PREFS_PATH
    p_pc,            \* where each save_preference call stands
    p_arg,           \* its argument, preference
    p_data,          \* its local data, after line 207
    p_found,         \* what kind of file its read found
    p_n,             \* the call's number, counting from 1
    p_result,        \* what it returned
    saves,           \* save_preference calls made so far
    call_log,        \* their arguments, in call order
    from_empty,      \* the file started as {"preferences": []}
    raced,           \* calls that had both read the file before either opened it to write
    loaded,          \* the last load_preferences call: what it found and returned
    \* tools_adk.py: the knowledge base
    kb_phase,        \* "import" while the module loads, then "ready" or "failed"
    kb_index,        \* kb_index: None, or an index holding ntotal vectors
    kb_texts,        \* kb_texts
    kb_call,         \* the last kb_search call: its arguments, what it did and returned
    \* tools_adk.py: web_search and search_flight_price
    env_key,         \* CUSTOM_SEARCH_API_KEY in the environment
    env_cx,          \* CUSTOM_SEARCH_CX in the environment
    s_call           \* the last search call: what it sent and returned

chatVars == <<user_sessions, sessions, createCalls, createRaised, runs, requests, pc,
              req_user, session_id, text_parts, n_events, emitted, had_entry,
              my_creates, response>>

prefVars == <<prefs_file, p_pc, p_arg, p_data, p_found, p_n, p_result, saves,
              call_log, from_empty, raced, loaded>>

kbVars == <<kb_phase, kb_index, kb_texts, kb_call>>

searchVars == <<env_key, env_cx, s_call>>

vars == <<chatVars, prefVars, kbVars, searchVars>>

notChat == <<prefVars, kbVars, searchVars>>

notPrefs == <<chatVars, kbVars, searchVars>>

notKb == <<chatVars, prefVars, searchVars>>

notSearch == <<chatVars, prefVars, kbVars>>

(***************************************************************************)
(* Strings.                                                                *)
(***************************************************************************)
Chars == {" ", "a"}

IsSpace(c) == c = " "

RECURSIVE StrOfLen(_)
StrOfLen(n) ==
    IF n = 0 THEN {<<>>}
    ELSE {<<c>> \o s : c \in Chars, s \in StrOfLen(n - 1)}

\* the text a part can carry: "", or one character
Fragments == StrOfLen(0) \cup StrOfLen(1)

RECURSIVE LStrip(_)
LStrip(s) ==
    IF s = <<>> THEN <<>>
    ELSE IF IsSpace(Head(s)) THEN LStrip(Tail(s)) ELSE s

RECURSIVE RStrip(_)
RStrip(s) ==
    IF s = <<>> THEN <<>>
    ELSE IF IsSpace(s[Len(s)]) THEN RStrip(SubSeq(s, 1, Len(s) - 1)) ELSE s

\* str.strip()
Strip(s) == RStrip(LStrip(s))

\* "".join(parts)
RECURSIVE Join(_)
Join(parts) ==
    IF parts = <<>> THEN <<>> ELSE Head(parts) \o Join(Tail(parts))

(***************************************************************************)
(* main_adk.py: the /chat endpoint.                                        *)
(***************************************************************************)
NoSession == 0

\* request.user_id of a handler that has no request
NoUser == ""

Errors == {"boom"}

FallbackText == <<"Sorry, I could not generate a response.">>

ErrorText(e) == <<"Sorry, I encountered an error: ", e>>

\* a part of an event's content: part.text is None, or a string
Parts == {[hasText |-> FALSE, text |-> <<>>]}
            \cup {[hasText |-> TRUE, text |-> f] : f \in Fragments}

RECURSIVE PartSeqs(_)
PartSeqs(n) ==
    IF n = 0 THEN {<<>>}
    ELSE PartSeqs(n - 1)
            \cup {Append(s, p) : s \in {t \in PartSeqs(n - 1) : Len(t) = n - 1}, p \in Parts}

\* an event: event.content is None, or holds a (possibly empty) list of parts
Events == {[hasContent |-> FALSE, parts |-> <<>>]}
            \cup {[hasContent |-> TRUE, parts |-> ps] : ps \in PartSeqs(MaxParts)}

\* the id create_session returns: one no session has had
FreshSession == Cardinality(sessions) + 1

\* lines 91-94: the texts of an event that are appended to text_parts
RECURSIVE TruthyTexts(_)
TruthyTexts(ps) ==
    IF ps = <<>> THEN <<>>
    ELSE IF Head(ps).hasText /\ Head(ps).text # <<>>
         THEN <<Head(ps).text>> \o TruthyTexts(Tail(ps))
         ELSE TruthyTexts(Tail(ps))

CollectEvent(tp, ev) ==
    IF ev.hasContent /\ ev.parts # <<>> THEN tp \o TruthyTexts(ev.parts) ELSE tp

\* every text an event carries, concatenated in order
RECURSIVE AllText(_)
AllText(ps) ==
    IF ps = <<>> THEN <<>>
    ELSE (IF Head(ps).hasText THEN Head(ps).text ELSE <<>>) \o AllText(Tail(ps))

\* the reply without the strip
FinalTextUnstripped(tp) ==
    LET final_text == Join(tp)
    IN  IF final_text = <<>> THEN FallbackText ELSE final_text

\* lines 98-100
FinalText(tp) ==
    LET final_text == Strip(Join(tp))
    IN  IF final_text = <<>> THEN FallbackText ELSE final_text

\* lines 80-86: the handler goes on to call runner.run_async
StartRun(h, u, sid) ==
    /\ runs' = runs \cup {<<u, sid>>}
    /\ session_id' = [session_id EXCEPT ![h] = sid]
    /\ text_parts' = [text_parts EXCEPT ![h] = <<>>]
    /\ n_events' = [n_events EXCEPT ![h] = 0]
    /\ emitted' = [emitted EXCEPT ![h] = <<>>]
    /\ pc' = [pc EXCEPT ![h] = "run"]

\* the entry already there: lines 66-67, then on to run_async
ChatFound(h, u) ==
    /\ user_sessions[u] # NoSession
    /\ StartRun(h, u, user_sessions[u])
    /\ my_creates' = [my_creates EXCEPT ![h] = 0]
    /\ UNCHANGED <<user_sessions, sessions, createCalls, createRaised>>

\* no entry: line 68 calls create_session and the handler is suspended at the await
ChatMissing(h, u) ==
    /\ user_sessions[u] = NoSession
    /\ createCalls' = [createCalls EXCEPT ![u] = @ + 1]
    /\ my_creates' = [my_creates EXCEPT ![h] = 1]
    /\ pc' = [pc EXCEPT ![h] = "create"]
    /\ UNCHANGED <<user_sessions, sessions, createRaised, runs, session_id,
                   text_parts, n_events, emitted>>

\* a POST /chat arrives: lines 77-79 and 65-68.  The handlers are
\* interchangeable: a request takes the first that is free
ChatRequest(h, u) ==
    /\ pc[h] = "idle"
    /\ \A g \in Handlers : g < h => pc[g] # "idle"
    /\ requests < MaxRequests
    /\ requests' = requests + 1
    /\ req_user' = [req_user EXCEPT ![h] = u]
    /\ had_entry' = [had_entry EXCEPT ![h] = (user_sessions[u] # NoSession)]
    /\ response' = [response EXCEPT ![h] = <<>>]
    /\ (ChatFound(h, u) \/ ChatMissing(h, u))
    /\ UNCHANGED notChat

\* line 73 left out: the id is not recorded
RecordSessionDropped(u, sid) == user_sessions

\* line 73
RecordSession(u, sid) == [user_sessions EXCEPT ![u] = sid]

\* create_session returns: lines 72-74, then on to run_async
CreateReturn(h) ==
    /\ pc[h] = "create"
    /\ LET u == req_user[h]
           sid == FreshSession
       IN  /\ sessions' = sessions \cup {<<u, sid>>}
           /\ user_sessions' = RecordSession(u, sid)
           /\ StartRun(h, u, sid)
    /\ UNCHANGED <<createCalls, createRaised, requests, req_user, had_entry,
                   my_creates, response, notChat>>

\* create_session raises: line 79 is outside the try, the exception leaves chat_endpoint
CreateRaise(h) ==
    /\ pc[h] = "create"
    /\ pc' = [pc EXCEPT ![h] = "crashed"]
    /\ createRaised' = createRaised \cup {req_user[h]}
    /\ UNCHANGED <<user_sessions, sessions, createCalls, runs, requests, req_user,
                   session_id, text_parts, n_events, emitted, had_entry, my_creates,
                   response, notChat>>

\* run_async yields an event: lines 86-94
RunEvent(h, ev) ==
    /\ pc[h] = "run"
    /\ n_events[h] < MaxEvents
    /\ Len(emitted[h]) + Len(AllText(ev.parts)) <= MaxText
    /\ n_events' = [n_events EXCEPT ![h] = @ + 1]
    /\ text_parts' = [text_parts EXCEPT ![h] = CollectEvent(@, ev)]
    /\ emitted' = [emitted EXCEPT ![h] = @ \o AllText(ev.parts)]
    /\ UNCHANGED <<user_sessions, sessions, createCalls, createRaised, runs, requests,
                   pc, req_user, session_id, had_entry, my_creates, response,
                   notChat>>

\* run_async raises: lines 95-97
RunRaise(h, e) ==
    /\ pc[h] = "run"
    /\ response' = [response EXCEPT ![h] = ErrorText(e)]
    /\ pc' = [pc EXCEPT ![h] = "failed"]
    /\ UNCHANGED <<user_sessions, sessions, createCalls, createRaised, runs, requests,
                   req_user, session_id, text_parts, n_events, emitted, had_entry,
                   my_creates, notChat>>

\* run_async is exhausted: lines 98-102
RunEnd(h) ==
    /\ pc[h] = "run"
    /\ response' = [response EXCEPT ![h] = FinalText(text_parts[h])]
    /\ pc' = [pc EXCEPT ![h] = "done"]
    /\ UNCHANGED <<user_sessions, sessions, createCalls, createRaised, runs, requests,
                   req_user, session_id, text_parts, n_events, emitted, had_entry,
                   my_creates, notChat>>

\* the reply (or the server's 500) has gone out: the handler is free again
Finish(h) ==
    /\ pc[h] \in {"done", "failed", "crashed"}
    /\ pc' = [pc EXCEPT ![h] = "idle"]
    /\ text_parts' = [text_parts EXCEPT ![h] = <<>>]
    /\ emitted' = [emitted EXCEPT ![h] = <<>>]
    /\ n_events' = [n_events EXCEPT ![h] = 0]
    /\ session_id' = [session_id EXCEPT ![h] = NoSession]
    /\ response' = [response EXCEPT ![h] = <<>>]
    /\ my_creates' = [my_creates EXCEPT ![h] = 0]
    /\ had_entry' = [had_entry EXCEPT ![h] = FALSE]
    /\ req_user' = [req_user EXCEPT ![h] = NoUser]
    /\ UNCHANGED <<user_sessions, sessions, createCalls, createRaised, runs, requests,
                   notChat>>

(***************************************************************************)
(* tools_adk.py: the preference store.                                     *)
(*                                                                         *)
(* The file is held as what open and json.load make of it: kind says       *)
(* whether it is missing, cannot be opened, is empty (as open(.., "w")     *)
(* leaves it), holds something that is not JSON, holds a JSON array or     *)
(* scalar, or holds a JSON object.  Of an object, pk says whether the key  *)
(* "preferences" is absent, holds a list (prefs) or holds something else,  *)
(* and extra whether the object has other keys.                            *)
(***************************************************************************)
Callers == {1, 2}

Prefs == {"vegetarian", "museums"}

RECURSIVE PrefLists(_)
PrefLists(n) ==
    IF n = 0 THEN {<<>>}
    ELSE PrefLists(n - 1)
            \cup {Append(s, x) : s \in {t \in PrefLists(n - 1) : Len(t) = n - 1}, x \in Prefs}

NotObject(k) == [kind |-> k, pk |-> "absent", prefs |-> <<>>, extra |-> FALSE]

Object(pk, prefs, extra) == [kind |-> "object", pk |-> pk, prefs |-> prefs, extra |-> extra]

\* {"preferences": []}, lines 40 and 204
EmptyDoc == Object("list", <<>>, FALSE)

\* the file as the first call may find it: startup (lines 37-40) leaves a file
\* where there was none, and the file is in a directory anyone may change
FileStates ==
    {NotObject(k) : k \in {"missing", "unreadable", "empty", "invalid", "array", "scalar"}}
        \cup {Object("absent", <<>>, e) : e \in BOOLEAN}
        \cup {Object("other", <<>>, e) : e \in BOOLEAN}
        \cup {Object("list", l, e) : l \in PrefLists(MaxInitPrefs), e \in BOOLEAN}

\* lines 201-202 and 218-219: open(PREFS_PATH, "r") and json.load raise
ReadFails(f) == f.kind \in {"missing", "unreadable", "empty", "invalid"}

\* lines 200-204: data
ReadData(f) == IF ReadFails(f) THEN EmptyDoc ELSE f

\* lines 205-206: data.get and prefs.append raise (AttributeError) when data is
\* no dict or data["preferences"] no list
AppendRaises(data) == data.kind # "object" \/ data.pk = "other"

\* an append that skips a preference already in the list
AppendPrefDedup(data, x) ==
    LET prefs == IF data.pk = "absent" THEN <<>> ELSE data.prefs
    IN  Object("list",
               IF \E i \in 1..Len(prefs) : prefs[i] = x THEN prefs ELSE Append(prefs, x),
               data.extra)

\* lines 205-207: data after data["preferences"] = prefs
AppendPref(data, x) ==
    Object("list", Append(IF data.pk = "absent" THEN <<>> ELSE data.prefs, x), data.extra)

NoResult == [status |-> "none", saved_preference |-> "", total_preferences |-> 0]

\* a count that is one too many
SaveResultOffByOne(x, prefs) ==
    [status |-> "ok", saved_preference |-> x, total_preferences |-> Len(prefs) + 1]

\* lines 210-214
SaveResult(x, prefs) ==
    [status |-> "ok", saved_preference |-> x, total_preferences |-> Len(prefs)]

\* lines 216-223: a list, or whatever else "preferences" holds
load_preferences(f) ==
    IF ReadFails(f) \/ f.kind # "object" THEN [kind |-> "list", value |-> <<>>]
    ELSE IF f.pk = "absent" THEN [kind |-> "list", value |-> <<>>]
    ELSE IF f.pk = "list" THEN [kind |-> "list", value |-> f.prefs]
    ELSE [kind |-> "other", value |-> <<>>]

InFlight(c) == p_pc[c] \in {"loaded", "opened"}

\* save_preference is called: lines 200-207, up to the open for writing
SaveCall(c, x) ==
    /\ ~InFlight(c)
    /\ saves < MaxSaves
    /\ saves' = saves + 1
    /\ call_log' = Append(call_log, x)
    /\ p_n' = [p_n EXCEPT ![c] = saves + 1]
    /\ p_arg' = [p_arg EXCEPT ![c] = x]
    /\ p_found' = [p_found EXCEPT ![c] = prefs_file.kind]
    /\ p_result' = [p_result EXCEPT ![c] = NoResult]
    /\ raced' = raced \ {c}
    /\ LET data == ReadData(prefs_file)
       IN  IF AppendRaises(data)
           THEN /\ p_pc' = [p_pc EXCEPT ![c] = "raised"]
                /\ p_data' = [p_data EXCEPT ![c] = EmptyDoc]
           ELSE /\ p_pc' = [p_pc EXCEPT ![c] = "loaded"]
                /\ p_data' = [p_data EXCEPT ![c] = AppendPref(data, x)]
    /\ UNCHANGED <<prefs_file, from_empty, loaded, notPrefs>>

\* calls that have read the file and not yet opened it for writing
Readers == {d \in Callers : p_pc[d] = "loaded"}

\* line 208: open(PREFS_PATH, "w") empties the file
SaveOpen(c) ==
    /\ p_pc[c] = "loaded"
    /\ prefs_file' = NotObject("empty")
    /\ p_pc' = [p_pc EXCEPT ![c] = "opened"]
    /\ raced' = IF Readers # {c} THEN raced \cup Readers ELSE raced
    /\ UNCHANGED <<p_arg, p_data, p_found, p_n, p_result, saves, call_log,
                   from_empty, loaded,
                   notPrefs>>

\* line 208: a file that could not be opened for reading (no permission, a
\* directory in its place) may not open for writing either
SaveOpenRaise(c) ==
    /\ p_pc[c] = "loaded"
    /\ prefs_file.kind = "unreadable"
    /\ p_pc' = [p_pc EXCEPT ![c] = "raised"]
    /\ UNCHANGED <<prefs_file, p_arg, p_data, p_found, p_n, p_result, saves,
                   call_log, from_empty, raced, loaded,
                   notPrefs>>

\* what the write leaves in the file.  The file is written from offset 0: over
\* an empty file that is the document; over what another call has written
\* since this one's open, it is the document, or the document followed by the
\* tail of a longer one, which is not JSON
Written(c) ==
    IF prefs_file.kind = "empty" THEN {p_data[c]}
    ELSE {p_data[c], NotObject("invalid")}

\* lines 209-214: json.dump, the file is closed, the call returns
SaveDump(c) ==
    /\ p_pc[c] = "opened"
    /\ prefs_file' \in Written(c)
    /\ p_result' = [p_result EXCEPT ![c] = SaveResult(p_arg[c], p_data[c].prefs)]
    /\ p_pc' = [p_pc EXCEPT ![c] = "ok"]
    /\ UNCHANGED <<p_arg, p_data, p_found, p_n, saves, call_log, from_empty,
                   raced, loaded,
                   notPrefs>>

\* load_preferences is called: lines 216-223
Load ==
    /\ loaded' = [reply |-> load_preferences(prefs_file), found |-> prefs_file.kind,
                  after |-> saves]
    /\ UNCHANGED <<prefs_file, p_pc, p_arg, p_data, p_found, p_n, p_result, saves,
                   call_log, from_empty, raced,
                   notPrefs>>

PrefsInit ==
    /\ prefs_file \in FileStates
    /\ p_pc = [c \in Callers |-> "idle"]
    /\ p_arg = [c \in Callers |-> "vegetarian"]
    /\ p_data = [c \in Callers |-> EmptyDoc]
    /\ p_found = [c \in Callers |-> "object"]
    /\ p_n = [c \in Callers |-> 0]
    /\ p_result = [c \in Callers |-> NoResult]
    /\ saves = 0
    /\ call_log = <<>>
    /\ from_empty = (prefs_file = EmptyDoc)
    /\ raced = {}
    /\ loaded = [reply |-> [kind |-> "none", value |-> <<>>], found |-> "object",
                 after |-> 0]

\* the preference store while nothing calls it
PrefsUnused == PrefsInit /\ prefs_file = EmptyDoc

(***************************************************************************)
(* tools_adk.py: the knowledge base.                                       *)
(***************************************************************************)
Chunks == {"paris", "rome"}

RECURSIVE ChunkLists(_)
ChunkLists(n) ==
    IF n = 0 THEN {<<>>}
    ELSE ChunkLists(n - 1)
            \cup {Append(s, x) : s \in {t \in ChunkLists(n - 1) : Len(t) = n - 1}, x \in Chunks}

\* line 20
NoIndex == [none |-> TRUE, ntotal |-> 0]

\* an index of n vectors: faiss.read_index (line 25), faiss.IndexFlatL2 (line 32)
Index(n) == [none |-> FALSE, ntotal |-> n]

Distances == {0, 1}

\* what kb_index.search(q_vec, k) can return: k pairs (distance, label), a label
\* being the position of a stored vector or -1 where there are fewer than k
Labels(index) == -1 .. (index.ntotal - 1)

RECURSIVE Hits(_, _)
Hits(index, k) ==
    IF k = 0 THEN {<<>>}
    ELSE {Append(s, [dist |-> d, idx |-> i]) :
            s \in Hits(index, k - 1), d \in Distances, i \in Labels(index)}

\* kb_texts[idx], as Python indexes a list
PyItem(texts, idx) == IF idx < 0 THEN texts[Len(texts) + idx + 1] ELSE texts[idx + 1]

\* the guard without its test of the text list
KbEmptyIgnoresTexts(index, texts) == index.none \/ index.ntotal = 0

\* line 48
KbEmpty(index, texts) == index.none \/ index.ntotal = 0 \/ texts = <<>>

\* the bounds test without its lower bound
OutOfRangeUpperOnly(idx, n) == idx >= n

\* line 58
OutOfRange(idx, n) == idx < 0 \/ idx >= n

\* lines 56-66
RECURSIVE KbResults(_, _)
KbResults(texts, hits) ==
    IF hits = <<>> THEN <<>>
    ELSE IF OutOfRange(Head(hits).idx, Len(texts))
         THEN KbResults(texts, Tail(hits))
         ELSE <<[text |-> PyItem(texts, Head(hits).idx),
                 score |-> Head(hits).dist,
                 index |-> Head(hits).idx]>> \o KbResults(texts, Tail(hits))

NoKbCall ==
    [called |-> FALSE, top_k |-> 0, embedded |-> FALSE, searched |-> FALSE,
     hits |-> <<>>, results |-> <<>>, message |-> ""]

\* lines 48-53
KbEmptyReply(top_k) ==
    [called |-> TRUE, top_k |-> top_k, embedded |-> FALSE, searched |-> FALSE,
     hits |-> <<>>, results |-> <<>>, message |-> "Knowledge base is empty."]

\* lines 54-70
KbReply(top_k, hits) ==
    [called |-> TRUE, top_k |-> top_k, embedded |-> TRUE, searched |-> TRUE,
     hits |-> hits, results |-> KbResults(kb_texts, hits), message |-> ""]

\* lines 24-28: both files are there
KbLoadFound(n, texts) ==
    /\ kb_phase = "import"
    /\ kb_index' = Index(n)
    /\ kb_texts' = texts
    /\ kb_phase' = "ready"
    /\ UNCHANGED <<kb_call, notKb>>

\* lines 29-33: one of the files is missing
KbLoadMissing ==
    /\ kb_phase = "import"
    /\ kb_index' = Index(0)
    /\ kb_texts' = <<>>
    /\ kb_phase' = "ready"
    /\ UNCHANGED <<kb_call, notKb>>

\* lines 25-27: faiss.read_index or json.load raises, the import fails
KbLoadRaise ==
    /\ kb_phase = "import"
    /\ kb_phase' = "failed"
    /\ UNCHANGED <<kb_index, kb_texts, kb_call, notKb>>

\* kb_search(query, top_k): lines 47-70
KbSearch(top_k) ==
    /\ kb_phase = "ready"
    /\ ~kb_call.called
    /\ IF KbEmpty(kb_index, kb_texts)
       THEN kb_call' = KbEmptyReply(top_k)
       ELSE \E hits \in Hits(kb_index, top_k) : kb_call' = KbReply(top_k, hits)
    /\ UNCHANGED <<kb_phase, kb_index, kb_texts, notKb>>

\* the caller has its answer
KbReturn ==
    /\ kb_call.called
    /\ kb_call' = NoKbCall
    /\ UNCHANGED <<kb_phase, kb_index, kb_texts, notKb>>

\* lines 20-21
KbInit ==
    /\ kb_phase = "import"
    /\ kb_index = NoIndex
    /\ kb_texts = <<>>
    /\ kb_call = NoKbCall

(***************************************************************************)
(* tools_adk.py: web_search and search_flight_price.                       *)
(***************************************************************************)
\* an environment variable: not set, set to "", or set to a value
Creds == {"unset", "blank", "set"}

\* not api_key, not cx: lines 76 and 130
Missing(v) == v # "set"

Queries == {"hotel", "museum"}

Cities == {"TPE", "NRT"}

Dates == {"2025-01-01"}

NoKey == "<no key>"

Items ==
    {[title |-> "t", snippet |-> "s", link |-> "l"],
     [title |-> NoKey, snippet |-> NoKey, link |-> NoKey]}

RECURSIVE ItemLists(_)
ItemLists(n) ==
    IF n = 0 THEN {<<>>}
    ELSE ItemLists(n - 1)
            \cup {Append(s, x) : s \in {t \in ItemLists(n - 1) : Len(t) = n - 1}, x \in Items}

\* what requests.get does: it raises, or returns a response; resp.json() of a
\* 200 response raises, or yields an object with or without "items"
HttpOutcomes ==
    {[kind |-> "raise", code |-> 0, json |-> FALSE, items |-> <<>>]}
        \cup {[kind |-> "response", code |-> c, json |-> FALSE, items |-> <<>>] :
                c \in {200, 403, 500}}
        \cup {[kind |-> "response", code |-> 200, json |-> TRUE, items |-> l] :
                l \in ItemLists(MaxItems)}

\* item.get(key, "")
Get(v) == IF v = NoKey THEN "" ELSE v

\* lines 111-119 and 172-180
RECURSIVE MapItems(_)
MapItems(items) ==
    IF items = <<>> THEN <<>>
    ELSE <<[title |-> Get(Head(items).title),
            snippet |-> Get(Head(items).snippet),
            url |-> Get(Head(items).link)]>> \o MapItems(Tail(items))

\* items[:max_results]
Take(items, n) == SubSeq(items, 1, IF n < Len(items) THEN n ELSE Len(items))

NoRequest == [q |-> <<>>, num |-> 0]

NoSearchCall ==
    [fn |-> "none", asked |-> <<>>, gets |-> 0, sent |-> NoRequest, http |-> "none",
     code |-> 0, raised |-> FALSE, error |-> "", results |-> <<>>]

\* the credentials test with "and" for "or"
CredentialMissingBoth(api_key, cx) == Missing(api_key) /\ Missing(cx)

\* lines 76 and 130
CredentialMissing(api_key, cx) == Missing(api_key) \/ Missing(cx)

\* lines 139: f"{origin} to {destination} flight {date} price"
FlightQuery(origin, destination, date) ==
    <<origin, " to ", destination, " flight ", date, " price">>

\* lines 76-124 and 130-187: the two functions differ in what they echo (asked)
\* and in the query they send
SearchReply(fn, asked, q, max_results, http) ==
    LET base == [NoSearchCall EXCEPT !.fn = fn, !.asked = asked]
        got == [base EXCEPT !.gets = 1, !.sent = [q |-> q, num |-> max_results],
                            !.http = http.kind, !.code = http.code]
    IN  IF CredentialMissing(env_key, env_cx)
        THEN [base EXCEPT !.error = "Missing CUSTOM_SEARCH_API_KEY or CUSTOM_SEARCH_CX in environment."]
        ELSE IF http.kind = "raise"
        THEN [got EXCEPT !.error = "Request error: {e}"]
        ELSE IF http.code # 200
        THEN [got EXCEPT !.error = "HTTP {resp.status_code}: {resp.text}"]
        ELSE IF ~http.json
        THEN [got EXCEPT !.raised = TRUE]
        ELSE [got EXCEPT !.results = MapItems(Take(http.items, max_results))]

\* web_search(query, max_results): lines 72-124
WebSearch(query, max_results, http) ==
    /\ s_call.fn = "none"
    /\ s_call' = SearchReply("web_search", <<query>>, <<query>>, max_results, http)
    /\ UNCHANGED <<env_key, env_cx, notSearch>>

\* search_flight_price(origin, destination, date, max_results): lines 126-187
SearchFlightPrice(origin, destination, date, max_results, http) ==
    /\ s_call.fn = "none"
    /\ s_call' = SearchReply("search_flight_price", <<origin, destination, date>>,
                             FlightQuery(origin, destination, date), max_results, http)
    /\ UNCHANGED <<env_key, env_cx, notSearch>>

\* the caller has its answer
SearchReturn ==
    /\ s_call.fn # "none"
    /\ s_call' = NoSearchCall
    /\ UNCHANGED <<env_key, env_cx, notSearch>>

SearchInit ==
    /\ env_key \in Creds
    /\ env_cx \in Creds
    /\ s_call = NoSearchCall

\* the search tools while nothing calls them
SearchUnused == SearchInit /\ env_key = "set" /\ env_cx = "set"

ChatInit ==
    /\ user_sessions = [u \in Users |-> NoSession]
    /\ sessions = {}
    /\ createCalls = [u \in Users |-> 0]
    /\ createRaised = {}
    /\ runs = {}
    /\ requests = 0
    /\ pc = [h \in Handlers |-> "idle"]
    /\ req_user = [h \in Handlers |-> NoUser]
    /\ session_id = [h \in Handlers |-> NoSession]
    /\ text_parts = [h \in Handlers |-> <<>>]
    /\ n_events = [h \in Handlers |-> 0]
    /\ emitted = [h \in Handlers |-> <<>>]
    /\ had_entry = [h \in Handlers |-> FALSE]
    /\ my_creates = [h \in Handlers |-> 0]
    /\ response = [h \in Handlers |-> <<>>]

(***************************************************************************)
(* The specifications.                                                     *)
(***************************************************************************)
Init == ChatInit /\ PrefsUnused /\ KbInit /\ SearchUnused

Next ==
    \/ \E h \in Handlers, u \in Users : ChatRequest(h, u)
    \/ \E h \in Handlers : CreateReturn(h)
    \/ \E h \in Handlers : CreateRaise(h)
    \/ \E h \in Handlers, ev \in Events : RunEvent(h, ev)
    \/ \E h \in Handlers, e \in Errors : RunRaise(h, e)
    \/ \E h \in Handlers : RunEnd(h)
    \/ \E h \in Handlers : Finish(h)

\* the server: requests are handled concurrently, suspended at their awaits
Spec == Init /\ [][Next]_vars

\* a request arrives while no other is being handled
SeqChatRequest(h, u) ==
    /\ \A g \in Handlers : pc[g] = "idle"
    /\ ChatRequest(h, u)

SeqNext ==
    \/ \E h \in Handlers, u \in Users : SeqChatRequest(h, u)
    \/ \E h \in Handlers : CreateReturn(h)
    \/ \E h \in Handlers : CreateRaise(h)
    \/ \E h \in Handlers, ev \in Events : RunEvent(h, ev)
    \/ \E h \in Handlers, e \in Errors : RunRaise(h, e)
    \/ \E h \in Handlers : RunEnd(h)
    \/ \E h \in Handlers : Finish(h)

\* the server with its requests handled one after another
SeqSpec == Init /\ [][SeqNext]_vars

PrefsSpecInit == ChatInit /\ PrefsInit /\ KbInit /\ SearchUnused

PrefsNext ==
    \/ \E c \in Callers, x \in Prefs : SaveCall(c, x)
    \/ \E c \in Callers : SaveOpen(c)
    \/ \E c \in Callers : SaveOpenRaise(c)
    \/ \E c \in Callers : SaveDump(c)
    \/ Load

\* the preference store, its calls running concurrently
PrefsSpec == PrefsSpecInit /\ [][PrefsNext]_vars

Quiet == \A c \in Callers : ~InFlight(c)

\* a call is made while no other is running
SeqSaveCall(c, x) == Quiet /\ SaveCall(c, x)

SeqLoad == Quiet /\ Load

PrefsSeqNext ==
    \/ \E c \in Callers, x \in Prefs : SeqSaveCall(c, x)
    \/ \E c \in Callers : SaveOpen(c)
    \/ \E c \in Callers : SaveOpenRaise(c)
    \/ \E c \in Callers : SaveDump(c)
    \/ SeqLoad

\* the preference store, its calls made one after another
PrefsSeqSpec == PrefsSpecInit /\ [][PrefsSeqNext]_vars

KbNext ==
    \/ \E n \in 0..MaxVecs, texts \in ChunkLists(MaxTexts) : KbLoadFound(n, texts)
    \/ KbLoadMissing
    \/ KbLoadRaise
    \/ \E top_k \in 1..MaxK : KbSearch(top_k)
    \/ KbReturn

\* the knowledge base: the module's load, then kb_search calls
KbSpec == Init /\ [][KbNext]_vars

SearchSpecInit == ChatInit /\ PrefsUnused /\ KbInit /\ SearchInit

SearchNext ==
    \/ \E q \in Queries, m \in 0..MaxResults, http \in HttpOutcomes :
            WebSearch(q, m, http)
    \/ \E o \in Cities, d \in Cities, t \in Dates, m \in 0..MaxResults,
            http \in HttpOutcomes : SearchFlightPrice(o, d, t, m, http)
    \/ SearchReturn

\* the search tools, under every setting of the two credentials
SearchSpec == SearchSpecInit /\ [][SearchNext]_vars

(***************************************************************************)
(* The claims.                                                             *)
(***************************************************************************)
SessionsOf(u) == {p \in sessions : p[1] = u}

RunsOf(u) == {p \in runs : p[1] = u}

\* C1 (SeqSpec): with requests handled one after another, a request that finds no
\* entry for its user calls create_session exactly once and the id returned is
\* recorded and used for its run; a request that finds an entry makes no call and
\* runs with the recorded id.  So a user whose create_session has not raised
\* sees one call at most, every user has one session at most, and every run of a
\* user is given the id recorded for it.
C1_SequentialSessionReuse ==
    /\ \A h \in Handlers :
        pc[h] # "idle" => my_creates[h] = (IF had_entry[h] THEN 0 ELSE 1)
    /\ \A h \in Handlers :
        pc[h] \in {"run", "done", "failed"} =>
            /\ session_id[h] = user_sessions[req_user[h]]
            /\ <<req_user[h], session_id[h]>> \in sessions
    /\ \A u \in Users :
        /\ u \notin createRaised => createCalls[u] <= 1
        /\ user_sessions[u] # NoSession => SessionsOf(u) = {<<u, user_sessions[u]>>}
        /\ Cardinality(SessionsOf(u)) <= 1
    /\ \A p \in runs : p[2] = user_sessions[p[1]]

\* a later request runs for a user whose session an earlier request created
C1_Witness ==
    \E h \in Handlers :
        /\ pc[h] = "run"
        /\ had_entry[h]
        /\ my_creates[h] = 0
        /\ requests = MaxRequests
        /\ req_user[h] \notin createRaised
        /\ createCalls[req_user[h]] = 1
        /\ RunsOf(req_user[h]) = {<<req_user[h], session_id[h]>>}

\* C2 (Spec): in every interleaving a user has at most one session:
\* create_session is called at most once for it and all its runs are given the
\* same session id.
C2_OneSessionPerUser ==
    \A u \in Users :
        /\ createCalls[u] <= 1
        /\ Cardinality(SessionsOf(u)) <= 1
        /\ Cardinality(RunsOf(u)) <= 1

\* C4 (Spec): every request in which something fails is answered with the
\* explanatory text; no exception leaves chat_endpoint.
C4_EveryFailureIsAnswered ==
    \A h \in Handlers :
        /\ pc[h] # "crashed"
        /\ pc[h] = "failed" => \E e \in Errors : response[h] = ErrorText(e)

\* C9 (Spec): the reply of a request whose run ends without an exception is the
\* text its own run emitted, in order, stripped; the fallback when that is empty.
C9_ResponseIsOwnText ==
    \A h \in Handlers :
        pc[h] = "done" =>
            response[h] = IF Strip(emitted[h]) = <<>> THEN FallbackText
                          ELSE Strip(emitted[h])

\* a reply of two events' text, shorter than what was emitted, while another
\* request's run has emitted other text
C9_Witness ==
    \E h, g \in Handlers :
        /\ h # g
        /\ pc[h] = "done"
        /\ n_events[h] = 2
        /\ Len(text_parts[h]) = 2
        /\ response[h] # FallbackText
        /\ Len(response[h]) < Len(emitted[h])
        /\ pc[g] = "run"
        /\ emitted[g] # <<>>
        /\ emitted[g] # emitted[h]

ListReply(l) == [kind |-> "list", value |-> l]

\* C3 (PrefsSeqSpec): from {"preferences": []}, with the calls made one after
\* another, no save raises, the n-th save returns total_preferences = n, and
\* load_preferences returns the saved strings in call order, duplicates kept.
C3_SequentialSavesAccumulate ==
    from_empty =>
        /\ \A c \in Callers : p_pc[c] # "raised"
        /\ \A c \in Callers :
            p_pc[c] = "ok" =>
                /\ p_result[c].status = "ok"
                /\ p_result[c].saved_preference = p_arg[c]
                /\ p_result[c].total_preferences = p_n[c]
        /\ Quiet => load_preferences(prefs_file) = ListReply(call_log)
        /\ loaded.reply.kind # "none" =>
                loaded.reply = ListReply(SubSeq(call_log, 1, loaded.after))

\* three saves, the first two of the same string, and a load after them
C3_Witness ==
    /\ from_empty
    /\ saves = 3
    /\ Quiet
    /\ call_log[1] = call_log[2]
    /\ call_log[3] # call_log[2]
    /\ loaded.after = 3
    /\ loaded.reply.value = call_log
    /\ \E c \in Callers : p_pc[c] = "ok" /\ p_result[c].total_preferences = 3

\* C6 (PrefsSeqSpec): whatever the file is (missing, unreadable, not JSON, JSON
\* that is no object), load_preferences returns [] and save_preference takes the
\* list to be empty, writes {"preferences": [text]} and returns
\* total_preferences = 1, without raising.
C6_BadFileReadsAsEmpty ==
    /\ loaded.reply.kind # "none" /\ loaded.found # "object" => loaded.reply = ListReply(<<>>)
    /\ \A c \in Callers :
        p_found[c] # "object" /\ p_pc[c] \in {"ok", "raised"} =>
            /\ p_pc[c] = "ok"
            /\ p_data[c] = Object("list", <<p_arg[c]>>, FALSE)
            /\ p_result[c].total_preferences = 1

\* two calls that had both read the file before either opened it to write, and
\* have both returned
RacedAndReturned(c, d) ==
    /\ c # d
    /\ {c, d} \subseteq raced
    /\ p_pc[c] = "ok"
    /\ p_pc[d] = "ok"

\* C10 (PrefsSpec): when two saves have both read the file before either wrote
\* it, both return "ok", and the file, if it is a document at all, is the
\* document of one of them alone; counting from an empty list, it holds fewer
\* preferences than saves have returned "ok", and so does either call's count.
C10_RacingSavesLoseAnUpdate ==
    \A c, d \in Callers :
        RacedAndReturned(c, d) =>
            /\ p_result[c].status = "ok"
            /\ p_result[d].status = "ok"
            /\ prefs_file.kind = "object" => prefs_file \in {p_data[c], p_data[d]}
            /\ from_empty =>
                /\ prefs_file.kind = "object" => Len(prefs_file.prefs) < saves
                /\ p_result[c].total_preferences < saves
                /\ p_result[d].total_preferences < saves

\* two saves of different strings to an empty list, both "ok" with a count of 1,
\* and the file holds one of the two strings
C10_Witness ==
    \E c, d \in Callers :
        /\ RacedAndReturned(c, d)
        /\ from_empty
        /\ saves = 2
        /\ p_arg[c] # p_arg[d]
        /\ prefs_file = Object("list", <<p_arg[d]>>, FALSE)
        /\ p_result[c].total_preferences = 1
        /\ p_result[d].total_preferences = 1

\* C5 (SearchSpec): with a credential missing, the GET raising or a status other
\* than 200, the call returns an error string and no results and does not raise;
\* with a credential missing no GET is made; no call makes more than one GET.
C5_SearchFailuresBecomeErrors ==
    s_call.fn # "none" =>
        /\ s_call.gets <= 1
        /\ (env_key # "set" \/ env_cx # "set") => s_call.gets = 0
        /\ (\/ env_key # "set"
            \/ env_cx # "set"
            \/ s_call.http = "raise"
            \/ s_call.http = "response" /\ s_call.code # 200) =>
                /\ ~s_call.raised
                /\ s_call.error # ""
                /\ s_call.results = <<>>

\* a flight search with both credentials set that met a 500
C5_Witness ==
    /\ s_call.fn = "search_flight_price"
    /\ env_key = "set"
    /\ env_cx = "set"
    /\ s_call.gets = 1
    /\ s_call.http = "response"
    /\ s_call.code = 500
    /\ s_call.error # ""
    /\ s_call.results = <<>>

InRange(hit) == hit.idx >= 0 /\ hit.idx < Len(kb_texts)

\* C7 (KbSpec): a kb_search that searched returns at most top_k results: the
\* in-range hits in the order the search gave them, each with the text at its
\* index; hits out of range are left out.
C7_KbResultsInRange ==
    kb_call.searched =>
        /\ Len(kb_call.results) <= kb_call.top_k
        /\ \A i \in 1..Len(kb_call.results) :
            LET r == kb_call.results[i]
            IN  /\ 0 <= r.index
                /\ r.index < Len(kb_texts)
                /\ r.text = kb_texts[r.index + 1]
        /\ Len(kb_call.results) = Len(SelectSeq(kb_call.hits, InRange))
        /\ \A i \in 1..Len(kb_call.results) :
            /\ kb_call.results[i].index = SelectSeq(kb_call.hits, InRange)[i].idx
            /\ kb_call.results[i].score = SelectSeq(kb_call.hits, InRange)[i].dist

\* a search for three that got a padding label, a label past the text list and
\* one label in range
C7_Witness ==
    /\ kb_call.searched
    /\ kb_call.top_k = 3
    /\ kb_call.hits[1].idx = -1
    /\ kb_call.hits[2].idx >= Len(kb_texts)
    /\ InRange(kb_call.hits[3])
    /\ Len(kb_call.results) = 1

\* C8 (KbSpec): with no index, an index of no vectors or an empty text list,
\* kb_search returns no results and the message, and neither embeds the query
\* nor searches the index; the index is never searched while the text list is
\* empty.
C8_EmptyKnowledgeBase ==
    kb_call.called =>
        /\ (kb_index.none \/ kb_index.ntotal = 0 \/ kb_texts = <<>>) =>
            /\ kb_call.results = <<>>
            /\ kb_call.message = "Knowledge base is empty."
            /\ ~kb_call.embedded
            /\ ~kb_call.searched
        /\ kb_call.searched => kb_texts # <<>>

\* a call on an index that holds vectors beside an empty text list
C8_Witness ==
    /\ kb_call.called
    /\ kb_index.ntotal > 0
    /\ kb_texts = <<>>
    /\ kb_call.message = "Knowledge base is empty."
    /\ ~kb_call.searched

====
